---- MODULE Spec2Model ----
(***************************************************************************)
(* nebula::ConcurrentLRUCache<K, V> (src/common/base/ConcurrentLRUCache.h) *)
(* and the LRU<Key, Value> engine it shards.                               *)
(*                                                                         *)
(* A cache is a vector of buckets; every bucket owns one std::mutex and    *)
(* one LRU.  An LRU is a std::list of keys (head = most recently used)     *)
(* and an unordered_map from key to (value, list iterator).  A list        *)
(* iterator is modelled by the identity of the list node it points to.     *)
(* Threads call the public operations; each call is split at the points    *)
(* where other threads can interleave: the call itself, the acquisition    *)
(* of the bucket's lock, and the body run under the lock (the lock_guard   *)
(* releases the lock when the body returns).                               *)
(***************************************************************************)
EXTENDS Integers, Sequences, FiniteSets, TLC

----------------------------------------------------------------------------
(* Bounds of the model *)

\* keys of the two-thread specification: 1..NumKeys, routed by their hash
NumKeys == 4
\* keys, values and hints (-1: unset) of the one-thread, two-bucket specification
NumValKeys == 2
NumVals == 2
MaxHint == 2
\* keys of the one-bucket specification
NumSeqKeys == 5
\* threads are 1..NumThreads
NumThreads == 3
\* constructor arguments of the specification that constructs any cache:
\* capacity in 0..MaxCap, bucketsExp in 0..MaxExp
MaxCap == 5
MaxExp == 2
\* its keys
NumCtorKeys == 3

Keys == 1..NumKeys
ValKeys == 1..NumValKeys
Vals == 1..NumVals
Hints == -1..MaxHint
SeqKeys == 1..NumSeqKeys
Threads == 1..NumThreads

\* the value the calls pass where the claims checked do not read values
OneVal == {1}
\* the default hint
NoHint == {-1}
\* the threads of the specification in which two threads call everything
Workers == {1, 2}

\* constructor arguments <<capacity, bucketsExp>>: two buckets of capacity 1
\* and 2; one bucket of capacity 4
Configs == {<<3, 1>>}
SeqConfigs == {<<4, 0>>}
\* every pair of arguments within the bounds
CtorArgs == (0..MaxCap) \X (0..MaxExp)
CtorKeys == 1..NumCtorKeys
\* its hints: none, or the second bucket
CtorHints == {-1, 1}

----------------------------------------------------------------------------
(* Values *)

\* boost::none
None == 0
\* no value argument (contains, get, evict, clear)
NoVal == None
\* std::mutex not held
Unlocked == 0

\* the hint argument when it is left out
DefaultHint == -1

NoFrame == [op |-> "none", key |-> 0, val |-> NoVal, hint |-> DefaultHint,
            idx |-> 0, v |-> None]
\* no call has returned: the call (op, key, arg, hint, idx), what it returned
\* (kind, val) and, as history, whether it found its key in the bucket and
\* whether its insertion reached the private evict()
NoRet == [op |-> "none", key |-> 0, arg |-> NoVal, hint |-> DefaultHint, idx |-> 0,
          kind |-> "none", val |-> 0, found |-> FALSE, evicted |-> FALSE]

\* std::hash<K> for integral K (libstdc++: the identity)
Hash(key) == key

RECURSIVE BitAnd(_, _)
\* x & y on non-negative integers
BitAnd(x, y) ==
    IF x = 0 \/ y = 0 THEN 0
    ELSE (IF x % 2 = 1 /\ y % 2 = 1 THEN 1 ELSE 0) + 2 * BitAnd(x \div 2, y \div 2)

RECURSIVE ShiftRight(_, _)
\* x >> k on non-negative integers
ShiftRight(x, k) == IF k = 0 THEN x ELSE ShiftRight(x \div 2, k - 1)

----------------------------------------------------------------------------
(* std::list<key_type> and the unordered_map *)

\* the identity of a newly allocated list node: any identity not in use;
\* identities are not observable, the least free one is taken
FreshNode(list) ==
    CHOOSE n \in 1..(Len(list) + 1) :
        /\ \A i \in 1..Len(list) : list[i].node # n
        /\ \A m \in 1..(n - 1) : \E i \in 1..Len(list) : list[i].node = m

list_push_front(list, key) == <<[node |-> FreshNode(list), key |-> key]>> \o list

\* list_.erase(it): defined only for an iterator of a node of the list
list_has(list, it) == \E i \in 1..Len(list) : list[i].node = it

list_erase(list, it) == SelectSeq(list, LAMBDA e : e.node # it)

map_erase(map, key) == [k \in (DOMAIN map) \ {key} |-> map[k]]

map_put(map, key, entry) ==
    [k \in (DOMAIN map) \cup {key} |-> IF k = key THEN entry ELSE map[k]]

----------------------------------------------------------------------------
(* class LRU *)

LRU(capacity_) == [map_ |-> <<>>, list_ |-> <<>>, capacity_ |-> capacity_]

LRU_size(lru) == Cardinality(DOMAIN lru.map_)

LRU_contains(lru, key) == key \in DOMAIN lru.map_

\* a bug: the node at the head of the list is evicted
LRU_evictLRU_head(lru) ==
    LET i == lru.list_[1]
    IN  [lru EXCEPT !.map_ = map_erase(@, i.key),
                    !.list_ = list_erase(@, i.node)]

\* private evict(): remove the node at the tail of the list and its map entry
LRU_evictLRU(lru) ==
    LET i == lru.list_[Len(lru.list_)]
    IN  [lru EXCEPT !.map_ = map_erase(@, i.key),
                    !.list_ = list_erase(@, i.node)]

\* a bug: the cache counts as full one entry early
LRU_insert_evicts_early(lru, key) ==
    /\ ~LRU_contains(lru, key)
    /\ LRU_size(lru) + 1 >= lru.capacity_

\* insert reaches evict() exactly when the key is absent and size() >= capacity_
LRU_insert_evicts(lru, key) ==
    /\ ~LRU_contains(lru, key)
    /\ LRU_size(lru) >= lru.capacity_

\* --list_.end() on an empty list is undefined
LRU_insert_defined(lru, key) ==
    LRU_insert_evicts(lru, key) => lru.list_ # <<>>

\* a bug: a present key gets the new value
LRU_insert_overwrite(lru, key, value) ==
    IF LRU_contains(lru, key)
    THEN [lru EXCEPT !.map_[key].val = value]
    ELSE LET l1 == IF LRU_size(lru) >= lru.capacity_
                   THEN LRU_evictLRU(lru) ELSE lru
             l2 == list_push_front(l1.list_, key)
         IN  [l1 EXCEPT !.list_ = l2,
                        !.map_ = map_put(@, key, [val |-> value, it |-> l2[1].node])]

\* a bug: the cache counts as full only above its capacity
LRU_insert_late(lru, key, value) ==
    IF LRU_contains(lru, key) THEN lru
    ELSE LET l1 == IF LRU_size(lru) > lru.capacity_
                   THEN LRU_evictLRU(lru) ELSE lru
             l2 == list_push_front(l1.list_, key)
         IN  [l1 EXCEPT !.list_ = l2,
                        !.map_ = map_put(@, key, [val |-> value, it |-> l2[1].node])]

LRU_insert(lru, key, value) ==
    IF LRU_contains(lru, key) THEN lru
    ELSE LET l1 == IF LRU_size(lru) >= lru.capacity_
                   THEN LRU_evictLRU(lru) ELSE lru
             l2 == list_push_front(l1.list_, key)
         IN  [l1 EXCEPT !.list_ = l2,
                        !.map_ = map_put(@, key, [val |-> value, it |-> l2[1].node])]

\* the value get returns: boost::none on a miss
LRU_get_value(lru, key) ==
    IF LRU_contains(lru, key) THEN lru.map_[key].val ELSE None

\* list_.erase(j) of a dangling iterator is undefined
LRU_get_defined(lru, key) ==
    LRU_contains(lru, key) => list_has(lru.list_, lru.map_[key].it)

\* a bug: a miss leaves a default entry behind, as map_[key] would
LRU_get_default(lru, key) ==
    IF ~LRU_contains(lru, key)
    THEN [lru EXCEPT !.map_ = map_put(@, key, [val |-> None, it |-> 0])]
    ELSE LET j == lru.map_[key].it
             value == lru.map_[key].val
         IN  IF j # lru.list_[1].node
             THEN LET l2 == list_push_front(list_erase(lru.list_, j), key)
                  IN  [lru EXCEPT !.list_ = l2,
                                  !.map_ = map_put(@, key, [val |-> value, it |-> l2[1].node])]
             ELSE lru

\* a bug: a hit returns the value without moving the key
LRU_get_peek(lru, key) == lru

\* a bug: the promoted key is pushed to the front without list_.erase(j)
LRU_get_dup(lru, key) ==
    IF ~LRU_contains(lru, key) THEN lru
    ELSE LET j == lru.map_[key].it
             value == lru.map_[key].val
         IN  IF j # lru.list_[1].node
             THEN LET l2 == list_push_front(lru.list_, key)
                  IN  [lru EXCEPT !.list_ = l2,
                                  !.map_ = map_put(@, key, [val |-> value, it |-> l2[1].node])]
             ELSE lru

\* a bug: the map entry of the promoted key is erased with its old node
LRU_get_forget(lru, key) ==
    IF ~LRU_contains(lru, key) THEN lru
    ELSE LET j == lru.map_[key].it
         IN  IF j # lru.list_[1].node
             THEN [lru EXCEPT !.list_ = list_erase(@, j),
                              !.map_ = map_erase(@, key)]
             ELSE lru

\* the state get leaves
LRU_get(lru, key) ==
    IF ~LRU_contains(lru, key) THEN lru
    ELSE LET j == lru.map_[key].it
             value == lru.map_[key].val
         IN  IF j # lru.list_[1].node
             THEN LET l2 == list_push_front(list_erase(lru.list_, j), key)
                  IN  [lru EXCEPT !.list_ = l2,
                                  !.map_ = map_put(@, key, [val |-> value, it |-> l2[1].node])]
             ELSE lru

LRU_evict_defined(lru, key) == LRU_get_defined(lru, key)

\* a bug: evict(key) of a present key calls evict(), which removes the tail
LRU_evict_tail(lru, key) ==
    IF LRU_contains(lru, key) THEN LRU_evictLRU(lru) ELSE lru

LRU_evict(lru, key) ==
    IF LRU_contains(lru, key)
    THEN [lru EXCEPT !.list_ = list_erase(@, lru.map_[key].it),
                     !.map_ = map_erase(@, key)]
    ELSE lru

LRU_clear(lru) == [lru EXCEPT !.map_ = <<>>, !.list_ = <<>>]

----------------------------------------------------------------------------
(* ConcurrentLRUCache: construction and routing *)

\* a bug: the first CHECK accepts a capacity equal to the number of buckets
CtorChecks_ge(cap, bucketsExp) ==
    LET bucketsNum == 2 ^ bucketsExp
        capPerBucket == ShiftRight(cap, bucketsExp)
        left == cap - (bucketsNum - 1) * capPerBucket
    IN  /\ cap >= bucketsNum /\ bucketsNum > 0
        /\ left > 0

\* the constructor's CHECKs: CHECK(capacity > bucketsNum_ && bucketsNum_ > 0)
\* and CHECK_GT(left, 0); a failed CHECK aborts the process
CtorChecks(cap, bucketsExp) ==
    LET bucketsNum == 2 ^ bucketsExp
        capPerBucket == ShiftRight(cap, bucketsExp)
        left == cap - (bucketsNum - 1) * capPerBucket
    IN  /\ cap > bucketsNum /\ bucketsNum > 0
        /\ left > 0

\* a bug: the last bucket gets capPerBucket as the others, the remainder is lost
Ctor_even(cap, bucketsExp) ==
    LET bucketsNum == 2 ^ bucketsExp
        capPerBucket == ShiftRight(cap, bucketsExp)
    IN  [i \in 0..(bucketsNum - 1) |-> LRU(capPerBucket)]

\* the buckets the constructor builds
Ctor(cap, bucketsExp) ==
    LET bucketsNum == 2 ^ bucketsExp
        capPerBucket == ShiftRight(cap, bucketsExp)
        left == cap - (bucketsNum - 1) * capPerBucket
    IN  [i \in 0..(bucketsNum - 1) |->
            LRU(IF i < bucketsNum - 1 THEN capPerBucket ELSE left)]

----------------------------------------------------------------------------
(* State *)

VARIABLES
    capacity,      \* the constructor's capacity argument
    bucketsExp_,   \* ConcurrentLRUCache::bucketsExp_
    bucketsNum_,   \* ConcurrentLRUCache::bucketsNum_
    buckets_,      \* ConcurrentLRUCache::buckets_: index -> the bucket's lru_
    lock_,         \* Bucket::lock_ of every bucket: Unlocked or the holder
    pc,            \* where each thread is: "idle", "lock" (waiting for the
                   \* bucket's lock), "run" (in the body, lock held),
                   \* "put" (putIfAbsent after its get, lock held)
    frame,         \* the running call of each thread: operation, arguments,
                   \* bucket index (clear: the loop index i), putIfAbsent's v
    ret,           \* the last call each thread completed and what it returned
    ub,            \* undefined behaviour has been executed
    fatal,         \* a CHECK of the constructor failed: the process aborted
    since,         \* history: per thread, the buckets a key was inserted
                   \* into since the thread's clear() call began
    script,        \* history: how many calls of Script the calls completed
                   \* since construction are exactly, or -1
    recency        \* history: per bucket, its present keys ordered by their
                   \* last touch (insertion, or hit of LRU::get), latest first

vars == <<capacity, bucketsExp_, bucketsNum_, buckets_, lock_, pc, frame, ret,
          ub, fatal, since, script, recency>>

cacheVars == <<capacity, bucketsExp_, bucketsNum_, fatal>>

Buckets == 0..(bucketsNum_ - 1)

InitWith(configs) ==
    \E cfg \in configs :
        /\ capacity = cfg[1]
        /\ bucketsExp_ = cfg[2]
        /\ bucketsNum_ = 2 ^ cfg[2]
        /\ fatal = ~CtorChecks(cfg[1], cfg[2])
        /\ buckets_ = IF CtorChecks(cfg[1], cfg[2]) THEN Ctor(cfg[1], cfg[2]) ELSE <<>>
        /\ lock_ = [i \in DOMAIN buckets_ |-> Unlocked]
        /\ pc = [t \in Threads |-> "idle"]
        /\ frame = [t \in Threads |-> NoFrame]
        /\ ret = [t \in Threads |-> NoRet]
        /\ ub = FALSE
        /\ since = [t \in Threads |-> {}]
        /\ script = 0
        /\ recency = [i \in DOMAIN buckets_ |-> <<>>]

Init == InitWith(Configs)

\* a bug: the hint is ignored, every key goes to the bucket of its hash
bucketIndex_hash(key, hint) == BitAnd(Hash(key), 2 ^ bucketsExp_ - 1)

\* bucketIndex(key, hint)
bucketIndex(key, hint) ==
    IF hint >= 0 THEN BitAnd(hint, 2 ^ bucketsExp_ - 1)
    ELSE BitAnd(Hash(key), 2 ^ bucketsExp_ - 1)

----------------------------------------------------------------------------
(* History *)

\* the calls of the recency example: insert A, B, C, D, get A, insert E
Script ==
    << [op |-> "insert", key |-> 1], [op |-> "insert", key |-> 2],
       [op |-> "insert", key |-> 3], [op |-> "insert", key |-> 4],
       [op |-> "get", key |-> 1], [op |-> "insert", key |-> 5] >>

ScriptStep(op, key) ==
    IF script >= 0 /\ script < Len(Script) /\ Script[script + 1] = [op |-> op, key |-> key]
    THEN script + 1 ELSE -1

\* thread t is in a clear() call, or has returned from one and called nothing since
InClearEpoch(t) == frame[t].op = "clear" \/ (pc[t] = "idle" /\ ret[t].op = "clear")

\* no key
NoKey == None

\* the last-touch order of bucket idx once its lru_ is `lru` and `touched` (a
\* key, or NoKey) has just been touched: keys that left the map leave the order
Touch(idx, lru, touched) ==
    [recency EXCEPT ![idx] =
        (IF touched \in DOMAIN lru.map_ THEN <<touched>> ELSE <<>>)
        \o SelectSeq(@, LAMBDA k : k \in DOMAIN lru.map_ /\ k # touched)]

SinceInsert(idx) ==
    [t \in Threads |-> IF InClearEpoch(t) THEN since[t] \cup {idx} ELSE since[t]]

----------------------------------------------------------------------------
(* The public operations: route to one bucket and call it *)

Call(t, op, key, val, hint, idx) ==
    /\ ~ub /\ ~fatal
    /\ pc[t] = "idle"
    /\ pc' = [pc EXCEPT ![t] = "lock"]
    /\ frame' = [frame EXCEPT ![t] =
                    [op |-> op, key |-> key, val |-> val, hint |-> hint,
                     idx |-> idx, v |-> None]]
    /\ ret' = [ret EXCEPT ![t] = NoRet]
    /\ since' = [since EXCEPT ![t] = {}]
    /\ UNCHANGED <<cacheVars, buckets_, lock_, ub, script, recency>>

contains(t, key, hint) == Call(t, "contains", key, NoVal, hint, bucketIndex(key, hint))

insert(t, key, val, hint) == Call(t, "insert", key, val, hint, bucketIndex(key, hint))

get(t, key, hint) == Call(t, "get", key, NoVal, hint, bucketIndex(key, hint))

putIfAbsent(t, key, val, hint) == Call(t, "putIfAbsent", key, val, hint, bucketIndex(key, hint))

evict(t, key, hint) == Call(t, "evict", key, NoVal, hint, bucketIndex(key, hint))

\* clear(): the loop starts at i = 0
clear(t) == Call(t, "clear", 0, NoVal, DefaultHint, 0)

----------------------------------------------------------------------------
(* class Bucket: every operation runs under std::lock_guard<std::mutex> *)

\* a bug: the body is entered without waiting for the lock
Bucket_lock_nowait(t) ==
    /\ ~ub
    /\ pc[t] = "lock"
    /\ lock_' = [lock_ EXCEPT ![frame[t].idx] = t]
    /\ pc' = [pc EXCEPT ![t] = "run"]
    /\ UNCHANGED <<cacheVars, buckets_, frame, ret, ub, since, script, recency>>

\* the lock_guard's constructor: blocks until lock_ is free
Bucket_lock(t) ==
    /\ ~ub
    /\ pc[t] = "lock"
    /\ lock_[frame[t].idx] = Unlocked
    /\ lock_' = [lock_ EXCEPT ![frame[t].idx] = t]
    /\ pc' = [pc EXCEPT ![t] = "run"]
    /\ UNCHANGED <<cacheVars, buckets_, frame, ret, ub, since, script, recency>>

Running(t, op) == ~ub /\ pc[t] = "run" /\ frame[t].op = op

\* the body returns r: the lock_guard releases the lock, the call is over
Return(t, r) ==
    /\ lock_' = [lock_ EXCEPT ![frame[t].idx] = Unlocked]
    /\ pc' = [pc EXCEPT ![t] = "idle"]
    /\ ret' = [ret EXCEPT ![t] =
                  [op |-> frame[t].op, key |-> frame[t].key, arg |-> frame[t].val,
                   hint |-> frame[t].hint, idx |-> frame[t].idx, kind |-> r.kind, val |-> r.val,
                   found |-> /\ frame[t].op # "clear"
                             /\ IF frame[t].op = "putIfAbsent" THEN frame[t].v # None
                                ELSE LRU_contains(buckets_[frame[t].idx], frame[t].key),
                   evicted |-> /\ \/ frame[t].op = "insert"
                                  \/ frame[t].op = "putIfAbsent" /\ frame[t].v = None
                               /\ LRU_insert_evicts(buckets_[frame[t].idx], frame[t].key)]]
    /\ script' = ScriptStep(frame[t].op, frame[t].key)
    /\ frame' = [frame EXCEPT ![t] = NoFrame]

Void == [kind |-> "void", val |-> 0]
Bool(b) == [kind |-> "bool", val |-> IF b THEN 1 ELSE 0]
\* StatusOr<V> holding a value
Value(v) == [kind |-> "value", val |-> v]
\* Status::Error()
StatusError == [kind |-> "Error", val |-> 0]
\* Status::Inserted()
StatusInserted == [kind |-> "Inserted", val |-> 0]

\* undefined behaviour: the process may go on with the bucket in some other
\* state or stop; nothing runs after it in the model
Undefined(idx) ==
    /\ ub' = TRUE
    /\ \E lru \in {buckets_[idx], LRU_clear(buckets_[idx])} :
           buckets_' = [buckets_ EXCEPT ![idx] = lru]
    /\ UNCHANGED <<cacheVars, lock_, pc, frame, ret, since, script, recency>>

\* a bug: contains looks the key up with the promoting get
Bucket_contains_get(t) ==
    /\ Running(t, "contains")
    /\ buckets_' = [buckets_ EXCEPT ![frame[t].idx] = LRU_get(@, frame[t].key)]
    /\ Return(t, Bool(LRU_contains(buckets_[frame[t].idx], frame[t].key)))
    /\ UNCHANGED <<cacheVars, ub, since, recency>>

Bucket_contains(t) ==
    /\ Running(t, "contains")
    /\ Return(t, Bool(LRU_contains(buckets_[frame[t].idx], frame[t].key)))
    /\ UNCHANGED <<cacheVars, buckets_, ub, since, recency>>

Bucket_insert(t) ==
    LET idx == frame[t].idx
        key == frame[t].key
    IN  /\ Running(t, "insert")
        /\ IF LRU_insert_defined(buckets_[idx], key)
           THEN /\ buckets_' = [buckets_ EXCEPT ![idx] = LRU_insert(@, key, frame[t].val)]
                /\ Return(t, Void)
                /\ since' = SinceInsert(idx)
                /\ recency' = Touch(idx, buckets_'[idx],
                                   IF LRU_contains(buckets_[idx], key) THEN NoKey ELSE key)
                /\ UNCHANGED <<cacheVars, ub>>
           ELSE Undefined(idx)

Bucket_get(t) ==
    LET idx == frame[t].idx
        key == frame[t].key
        v == LRU_get_value(buckets_[idx], key)
    IN  /\ Running(t, "get")
        /\ IF LRU_get_defined(buckets_[idx], key)
           THEN /\ buckets_' = [buckets_ EXCEPT ![idx] = LRU_get(@, key)]
                /\ Return(t, IF v = None THEN StatusError ELSE Value(v))
                /\ recency' = Touch(idx, buckets_'[idx], key)
                /\ UNCHANGED <<cacheVars, ub, since>>
           ELSE Undefined(idx)

\* a bug: the key is looked up without promoting it
Bucket_putIfAbsent_peek(t) ==
    LET idx == frame[t].idx
        key == frame[t].key
    IN  /\ Running(t, "putIfAbsent")
        /\ frame' = [frame EXCEPT ![t].v = LRU_get_value(buckets_[idx], key)]
        /\ pc' = [pc EXCEPT ![t] = "put"]
        /\ UNCHANGED <<cacheVars, buckets_, lock_, ret, ub, since, script, recency>>

\* putIfAbsent, first half: auto v = lru_->get(key)
Bucket_putIfAbsent_get(t) ==
    LET idx == frame[t].idx
        key == frame[t].key
    IN  /\ Running(t, "putIfAbsent")
        /\ IF LRU_get_defined(buckets_[idx], key)
           THEN /\ buckets_' = [buckets_ EXCEPT ![idx] = LRU_get(@, key)]
                /\ frame' = [frame EXCEPT ![t].v = LRU_get_value(buckets_[idx], key)]
                /\ pc' = [pc EXCEPT ![t] = "put"]
                /\ recency' = Touch(idx, buckets_'[idx], key)
                /\ UNCHANGED <<cacheVars, lock_, ret, ub, since, script>>
           ELSE Undefined(idx)

\* putIfAbsent, second half: insert and Inserted when v is none, else v
Bucket_putIfAbsent(t) ==
    LET idx == frame[t].idx
        key == frame[t].key
    IN  /\ ~ub
        /\ pc[t] = "put"
        /\ IF frame[t].v = None
           THEN IF LRU_insert_defined(buckets_[idx], key)
                THEN /\ buckets_' = [buckets_ EXCEPT ![idx] = LRU_insert(@, key, frame[t].val)]
                     /\ Return(t, StatusInserted)
                     /\ since' = SinceInsert(idx)
                     /\ recency' = Touch(idx, buckets_'[idx],
                                        IF LRU_contains(buckets_[idx], key) THEN NoKey ELSE key)
                     /\ UNCHANGED <<cacheVars, ub>>
                ELSE Undefined(idx)
           ELSE /\ Return(t, Value(frame[t].v))
                /\ UNCHANGED <<cacheVars, buckets_, ub, since, recency>>

\* a bug: the key is evicted from every bucket
Bucket_evict_all(t) ==
    LET idx == frame[t].idx
        key == frame[t].key
    IN  /\ Running(t, "evict")
        /\ buckets_' = [b \in Buckets |-> LRU_evict(buckets_[b], key)]
        /\ Return(t, Void)
        /\ recency' = [b \in Buckets |->
                          SelectSeq(recency[b], LAMBDA k : k \in DOMAIN buckets_'[b].map_)]
        /\ UNCHANGED <<cacheVars, ub, since>>

Bucket_evict(t) ==
    LET idx == frame[t].idx
        key == frame[t].key
    IN  /\ Running(t, "evict")
        /\ IF LRU_evict_defined(buckets_[idx], key)
           THEN /\ buckets_' = [buckets_ EXCEPT ![idx] = LRU_evict(@, key)]
                /\ Return(t, Void)
                /\ recency' = Touch(idx, buckets_'[idx], NoKey)
                /\ UNCHANGED <<cacheVars, ub, since>>
           ELSE Undefined(idx)

\* a bug: the loop index is not advanced
Bucket_clear_again(t) ==
    LET i == frame[t].idx
    IN  /\ Running(t, "clear")
        /\ buckets_' = [buckets_ EXCEPT ![i] = LRU_clear(@)]
        /\ IF i + 1 < bucketsNum_
           THEN /\ lock_' = [lock_ EXCEPT ![i] = Unlocked]
                /\ pc' = [pc EXCEPT ![t] = "lock"]
                /\ UNCHANGED <<frame, ret, script>>
           ELSE Return(t, Void)
        /\ recency' = Touch(i, buckets_'[i], NoKey)
        /\ UNCHANGED <<cacheVars, ub, since>>

\* a bug: the lock of bucket i is still held while the next bucket is cleared
Bucket_clear_hold(t) ==
    LET i == frame[t].idx
    IN  /\ Running(t, "clear")
        /\ buckets_' = [buckets_ EXCEPT ![i] = LRU_clear(@)]
        /\ IF i + 1 < bucketsNum_
           THEN /\ frame' = [frame EXCEPT ![t].idx = i + 1]
                /\ pc' = [pc EXCEPT ![t] = "lock"]
                /\ UNCHANGED <<lock_, ret, script>>
           ELSE Return(t, Void)
        /\ recency' = Touch(i, buckets_'[i], NoKey)
        /\ UNCHANGED <<cacheVars, ub, since>>

\* a bug: the loop stops one bucket early, as the constructor's loop does
Bucket_clear_short(t) ==
    LET i == frame[t].idx
    IN  /\ Running(t, "clear")
        /\ buckets_' = [buckets_ EXCEPT ![i] = LRU_clear(@)]
        /\ IF i + 1 < bucketsNum_ - 1
           THEN /\ lock_' = [lock_ EXCEPT ![i] = Unlocked]
                /\ frame' = [frame EXCEPT ![t].idx = i + 1]
                /\ pc' = [pc EXCEPT ![t] = "lock"]
                /\ UNCHANGED <<ret, script>>
           ELSE Return(t, Void)
        /\ recency' = Touch(i, buckets_'[i], NoKey)
        /\ UNCHANGED <<cacheVars, ub, since>>

\* a bug: the first iteration clears every bucket, under the first lock
Bucket_clear_all(t) ==
    LET i == frame[t].idx
    IN  /\ Running(t, "clear")
        /\ buckets_' = [b \in Buckets |-> LRU_clear(buckets_[b])]
        /\ IF i + 1 < bucketsNum_
           THEN /\ lock_' = [lock_ EXCEPT ![i] = Unlocked]
                /\ frame' = [frame EXCEPT ![t].idx = i + 1]
                /\ pc' = [pc EXCEPT ![t] = "lock"]
                /\ UNCHANGED <<ret, script>>
           ELSE Return(t, Void)
        /\ recency' = [b \in Buckets |-> <<>>]
        /\ UNCHANGED <<cacheVars, ub, since>>

\* one iteration of clear()'s loop: buckets_[i].clear(), then i++; the call
\* returns when i reaches bucketsNum_
Bucket_clear(t) ==
    LET i == frame[t].idx
    IN  /\ Running(t, "clear")
        /\ buckets_' = [buckets_ EXCEPT ![i] = LRU_clear(@)]
        /\ IF i + 1 < bucketsNum_
           THEN /\ lock_' = [lock_ EXCEPT ![i] = Unlocked]
                /\ frame' = [frame EXCEPT ![t].idx = i + 1]
                /\ pc' = [pc EXCEPT ![t] = "lock"]
                /\ UNCHANGED <<ret, script>>
           ELSE Return(t, Void)
        /\ recency' = Touch(i, buckets_'[i], NoKey)
        /\ UNCHANGED <<cacheVars, ub, since>>

----------------------------------------------------------------------------
(* Specifications *)

Step(t) ==
    \/ Bucket_lock(t)
    \/ Bucket_contains(t)
    \/ Bucket_insert(t)
    \/ Bucket_get(t)
    \/ Bucket_putIfAbsent_get(t)
    \/ Bucket_putIfAbsent(t)
    \/ Bucket_evict(t)
    \/ Bucket_clear(t)

\* a thread of `threads` calls any operation, with a key of `keys`, a value of
\* `vals` and a hint of `hints`, or takes the next step of its call
NextWith(threads, keys, vals, hints) ==
    \E t \in threads :
        \/ \E key \in keys, hint \in hints :
              \/ contains(t, key, hint)
              \/ get(t, key, hint)
              \/ evict(t, key, hint)
              \/ \E val \in vals :
                    \/ insert(t, key, val, hint)
                    \/ putIfAbsent(t, key, val, hint)
        \/ clear(t)
        \/ Step(t)

\* two threads, two buckets, keys routed by their hash
Next == NextWith(Workers, Keys, OneVal, NoHint)

Spec == Init /\ [][Next]_vars

\* one thread, one bucket of capacity 4, five keys
InitSeq == InitWith(SeqConfigs)

NextSeq == NextWith({1}, SeqKeys, OneVal, NoHint)

SpecSeq == InitSeq /\ [][NextSeq]_vars

\* one thread, two buckets, keys routed by hint, several values
NextVal == NextWith({1}, ValKeys, Vals, Hints)

SpecVal == Init /\ [][NextVal]_vars

\* the putIfAbsent race: thread 1 may first fill the cache with inserts; then
\* the other threads (all threads when thread 1 inserted nothing) call
\* putIfAbsent once each, all with the same key, absent from its bucket, and the
\* same bucket, thread t passing the value t; nothing else is called meanwhile
Racing(u) == frame[u].op = "putIfAbsent" \/ ret[u].op = "putIfAbsent"

RaceSetup(key, hint) ==
    /\ \A u \in Threads : ~Racing(u)
    /\ \E val \in OneVal : insert(1, key, val, hint)

RaceCall(t, key, hint) ==
    /\ ret[t].op = "none"
    /\ \A u \in Threads :
          /\ frame[u].op = "putIfAbsent" =>
                frame[u].key = key /\ frame[u].idx = bucketIndex(key, hint)
          /\ ret[u].op = "putIfAbsent" =>
                ret[u].key = key /\ ret[u].idx = bucketIndex(key, hint)
    /\ (\A u \in Threads : ~Racing(u)) =>
          /\ \A u \in Threads : pc[u] = "idle"
          /\ ~LRU_contains(buckets_[bucketIndex(key, hint)], key)
    /\ putIfAbsent(t, key, t, hint)

NextRace ==
    \/ \E key \in ValKeys, hint \in Hints : RaceSetup(key, hint)
    \/ Bucket_insert(1)
    \/ \E t \in Threads :
          \/ \E key \in ValKeys, hint \in Hints : RaceCall(t, key, hint)
          \/ Bucket_lock(t)
          \/ Bucket_putIfAbsent_get(t)
          \/ Bucket_putIfAbsent(t)

SpecRace == Init /\ [][NextRace]_vars

\* two threads, two buckets, two keys, under fair scheduling: a thread in a
\* body takes its next step, and a thread waiting for a lock that is free
\* again and again gets it
Body(t) ==
    \/ Bucket_contains(t)
    \/ Bucket_insert(t)
    \/ Bucket_get(t)
    \/ Bucket_putIfAbsent_get(t)
    \/ Bucket_putIfAbsent(t)
    \/ Bucket_evict(t)
    \/ Bucket_clear(t)

NextLive == NextWith(Workers, ValKeys, OneVal, NoHint)

Fairness == \A t \in Workers : WF_vars(Body(t)) /\ SF_vars(Bucket_lock(t))

SpecLive == Init /\ [][NextLive]_vars /\ Fairness

\* one thread on a cache constructed with any arguments within the bounds
InitCtor == InitWith(CtorArgs)

NextCtor == NextWith({1}, CtorKeys, OneVal, CtorHints)

SpecCtor == InitCtor /\ [][NextCtor]_vars

----------------------------------------------------------------------------
(* Properties *)

\* the keys of a list, head first
KeysOf(list) == [i \in 1..Len(list) |-> list[i].key]

Last(seq) == seq[Len(seq)]

RECURSIVE SumSizes(_)
\* the sum of the sizes of buckets 0..n-1
SumSizes(n) == IF n = 0 THEN 0 ELSE LRU_size(buckets_[n - 1]) + SumSizes(n - 1)

\* thread t's step runs lru_->insert(key, val): the body of insert, or of
\* putIfAbsent after its get found nothing
LruInsertStep(t) ==
    /\ \/ pc[t] = "run" /\ frame[t].op = "insert"
       \/ pc[t] = "put" /\ frame[t].v = None
    /\ pc'[t] = "idle"

\* C1: in every reachable state, whatever the interleaving of the calls, every
\* bucket holds at most the capacity the constructor gave it, and all buckets
\* together hold at most the constructor's capacity argument.
C1_CapacityBound ==
    /\ \A b \in Buckets :
          /\ buckets_[b].capacity_ = Ctor(capacity, bucketsExp_)[b].capacity_
          /\ LRU_size(buckets_[b]) <= buckets_[b].capacity_
          /\ Len(buckets_[b].list_) <= buckets_[b].capacity_
    /\ SumSizes(bucketsNum_) <= capacity

\* every bucket is full, and the two threads' last calls inserted two different
\* absent keys into the same bucket of capacity 1
C1_Witness ==
    /\ \A b \in Buckets : LRU_size(buckets_[b]) = buckets_[b].capacity_
    /\ SumSizes(bucketsNum_) = capacity
    /\ \E t, u \in Threads :
          /\ ret[t].op = "insert" /\ ~ret[t].found
          /\ ret[u].op = "insert" /\ ~ret[u].found
          /\ ret[t].idx = ret[u].idx /\ ret[t].key # ret[u].key
          /\ buckets_[ret[t].idx].capacity_ = 1

C2_Step ==
    \A t \in Threads :
        LET idx == frame[t].idx
            key == frame[t].key
            lru == buckets_[idx]
            new == buckets_'[idx]
            keys == KeysOf(lru.list_)
        IN  (/\ LruInsertStep(t)
             /\ ~LRU_contains(lru, key)
             /\ LRU_size(lru) = lru.capacity_)
            => /\ Cardinality(DOMAIN lru.map_ \ DOMAIN new.map_) = 1
               /\ DOMAIN new.map_ = (DOMAIN lru.map_ \ {Last(recency[idx])}) \cup {key}
               /\ Last(keys) = Last(recency[idx])
               /\ KeysOf(new.list_) = <<key>> \o SubSeq(keys, 1, Len(keys) - 1)
               /\ \A k \in DOMAIN lru.map_ \cap DOMAIN new.map_ :
                     new.map_[k].val = lru.map_[k].val

C2_Example ==
    (script = Len(Script) /\ bucketsNum_ = 1 /\ buckets_[0].capacity_ = 4)
    => DOMAIN buckets_[0].map_ = {1, 3, 4, 5}

\* C2: an insert of an absent key into a full bucket removes exactly one entry,
\* the key touched (inserted, or hit by LRU::get) longest ago, which is the
\* tail of the list, and puts the new key at the head, the other keys keeping
\* their order and values; and with capacity 4, after insert 1, 2, 3, 4, get 1,
\* insert 5 the keys are 1, 3, 4, 5.
C2_EvictsLeastRecent == [][C2_Step]_vars /\ []C2_Example

\* the six calls of the example have just run on a bucket of capacity 4
C2_Witness ==
    /\ script = Len(Script) /\ bucketsNum_ = 1 /\ buckets_[0].capacity_ = 4
    /\ KeysOf(buckets_[0].list_) = <<5, 1, 4, 3>>

\* the threads whose putIfAbsent has returned, and those it told Inserted
Raced == {t \in Threads : ret[t].op = "putIfAbsent"}

RacedInserted == {t \in Raced : ret[t].kind = "Inserted"}

\* C3: when threads call putIfAbsent concurrently on one key that was absent,
\* with no other call meanwhile, then as soon as one call has returned exactly
\* one call has returned Inserted, the value it passed is the value stored, and
\* every other call that has returned returned that value.
C3_ExactlyOnce ==
    Raced # {} =>
        /\ Cardinality(RacedInserted) = 1
        /\ \A i \in RacedInserted :
              /\ LRU_get_value(buckets_[ret[i].idx], ret[i].key) = ret[i].arg
              /\ \A t \in Raced \ {i} :
                    ret[t].kind = "value" /\ ret[t].val = ret[i].arg

\* every thread has raced, and thread 1, whose value is 1, is not the one that
\* inserted
C3_Witness ==
    /\ Raced = Threads
    /\ \E i \in RacedInserted : i # 1 /\ ret[1].val = ret[i].arg

\* thread t's step is the body of Bucket::op
BodyStep(t, op) == pc[t] = "run" /\ frame[t].op = op /\ pc'[t] # "run"

C4_Step ==
    \A t \in Threads :
        LET idx == frame[t].idx
            key == frame[t].key
            lru == buckets_[idx]
        IN  (BodyStep(t, "insert") /\ LRU_contains(lru, key))
            => /\ buckets_' = buckets_
               /\ LRU_get_value(buckets_'[idx], key) = lru.map_[key].val
               /\ KeysOf(buckets_'[idx].list_) = KeysOf(lru.list_)
               /\ recency' = recency

\* C4: insert(k, v2) on a present key changes no bucket: k keeps its value, so
\* that a get returns the earlier value, the recency order stays as it is, and
\* nothing is evicted, full bucket or not.
C4_InsertPresentNoop == [][C4_Step]_vars

\* an insert has just returned that found its key, at the tail of a full bucket
\* of two keys, holding another value than the one passed
C4_Witness ==
    \E t \in Threads :
        LET lru == buckets_[ret[t].idx]
        IN  /\ pc[t] = "idle" /\ ret[t].op = "insert" /\ ret[t].found
            /\ LRU_size(lru) = lru.capacity_ /\ LRU_size(lru) = 2
            /\ Last(lru.list_).key = ret[t].key
            /\ lru.map_[ret[t].key].val # ret[t].arg

\* thread t's step removes key k from bucket b in a way the claim names:
\* evict(k), clear, or a capacity eviction with k at the tail
C5_Removes(t, b, k) ==
    /\ frame[t].idx = b
    /\ \/ BodyStep(t, "evict") /\ frame[t].key = k
       \/ BodyStep(t, "clear")
       \/ /\ LruInsertStep(t)
          /\ ~LRU_contains(buckets_[b], frame[t].key)
          /\ LRU_size(buckets_[b]) >= buckets_[b].capacity_
          /\ Last(buckets_[b].list_).key = k

C5_Step ==
    /\ \A b \in Buckets : \A k \in DOMAIN buckets_[b].map_ :
          \/ /\ LRU_contains(buckets_'[b], k)
             /\ buckets_'[b].map_[k].val = buckets_[b].map_[k].val
          \/ \E t \in Threads : C5_Removes(t, b, k)
    /\ \A t \in Threads :
          LET idx == frame[t].idx
              key == frame[t].key
          IN  /\ (LruInsertStep(t) /\ ~LRU_contains(buckets_[idx], key))
                 => LRU_get_value(buckets_'[idx], key) = frame[t].val
              /\ (BodyStep(t, "get") /\ LRU_contains(buckets_[idx], key))
                 => /\ ret'[t].kind = "value"
                    /\ ret'[t].val = buckets_[idx].map_[key].val

\* C5: a key inserted with value v keeps v, and every get of it returns v,
\* until evict of that key, clear, or a capacity eviction with the key at the
\* tail removes it; no other step removes a key or changes a value.
C5_RoundTrip == [][C5_Step]_vars

\* a get has just returned the value of a key that shares its bucket with a key
\* of another value
C5_Witness ==
    \E t \in Threads :
        LET lru == buckets_[ret[t].idx]
        IN  /\ pc[t] = "idle" /\ ret[t].op = "get" /\ ret[t].kind = "value"
            /\ LRU_contains(lru, ret[t].key)
            /\ lru.map_[ret[t].key].val = ret[t].val
            /\ \E k \in DOMAIN lru.map_ : lru.map_[k].val # ret[t].val

C6_Step ==
    \A t \in Threads :
        (BodyStep(t, "get") /\ ~LRU_contains(buckets_[frame[t].idx], frame[t].key))
        => /\ pc'[t] = "idle" /\ ~ub'
           /\ ret'[t].kind = "Error"
           /\ buckets_' = buckets_
           /\ recency' = recency

\* C6: a get of a key absent from its bucket returns the error status, as an
\* ordinary return, and leaves keys, values and order of every bucket as they
\* were.
C6_GetMiss == [][C6_Step]_vars

\* a get has just missed in a full bucket that holds another key
C6_Witness ==
    \E t \in Threads :
        /\ pc[t] = "idle" /\ ret[t].op = "get" /\ ret[t].kind = "Error"
        /\ LRU_size(buckets_[ret[t].idx]) = buckets_[ret[t].idx].capacity_
        /\ ~LRU_contains(buckets_[ret[t].idx], ret[t].key)

C7_Step ==
    \A t \in Threads :
        BodyStep(t, "contains")
        => /\ ret'[t].kind = "bool"
           /\ ret'[t].val = 1 <=> LRU_contains(buckets_[frame[t].idx], frame[t].key)
           /\ buckets_' = buckets_
           /\ recency' = recency

\* C7: contains returns true exactly when the key is in its bucket and changes
\* no bucket: keys, values and order stay, so the tail stays the tail.
C7_ContainsPure == [][C7_Step]_vars

\* contains has just returned true for the key at the tail of a full bucket of
\* four keys
C7_Witness ==
    \E t \in Threads :
        LET lru == buckets_[ret[t].idx]
        IN  /\ pc[t] = "idle" /\ ret[t].op = "contains" /\ ret[t].val = 1
            /\ LRU_size(lru) = lru.capacity_ /\ LRU_size(lru) = 4
            /\ Last(lru.list_).key = ret[t].key

C8_Step ==
    \A t \in Threads :
        LET idx == frame[t].idx
            key == frame[t].key
            lru == buckets_[idx]
            new == buckets_'[idx]
        IN  BodyStep(t, "evict")
            => /\ pc'[t] = "idle" /\ ~ub' /\ ret'[t].kind = "void"
               /\ ~LRU_contains(lru, key) => buckets_' = buckets_
               /\ DOMAIN new.map_ = DOMAIN lru.map_ \ {key}
               /\ KeysOf(new.list_) = SelectSeq(KeysOf(lru.list_), LAMBDA k : k # key)
               /\ \A k \in DOMAIN new.map_ : new.map_[k].val = lru.map_[k].val
               /\ \A b \in Buckets \ {idx} : buckets_'[b] = buckets_[b]
               /\ LRU_evict(new, key) = new

\* C8: evict of an absent key changes nothing and is no error; evict of a
\* present key removes that key only and keeps the order of the others; a
\* second evict of the same key leaves the state the first one left.
C8_EvictIdempotent == [][C8_Step]_vars

\* an evict has just removed its key from a bucket and left three keys
C8_Witness ==
    \E t \in Threads :
        /\ pc[t] = "idle" /\ ret[t].op = "evict" /\ ret[t].found
        /\ LRU_size(buckets_[ret[t].idx]) = 3

\* C9: once clear() has returned, and no insert or putIfAbsent has run since
\* the call began, every bucket is empty, so contains is false for every key
\* and hint.
C9_ClearComplete ==
    \A t \in Threads :
        (pc[t] = "idle" /\ ret[t].op = "clear" /\ since[t] = {})
        => \A b \in Buckets :
              /\ buckets_[b].map_ = <<>> /\ buckets_[b].list_ = <<>>
              /\ \A k \in Keys, h \in Hints :
                    ~LRU_contains(buckets_[bucketIndex(k, h)], k)

\* a clear() has returned with nothing inserted since it began, and the last
\* call of another thread, before it, inserted a key into the second bucket
C9_Witness ==
    \E t, u \in Threads :
        /\ pc[t] = "idle" /\ ret[t].op = "clear" /\ since[t] = {}
        /\ pc[u] = "idle" /\ ret[u].op = "insert" /\ ~ret[u].found
        /\ ret[u].idx = 1

C10_Step ==
    \A t \in Threads :
        LET i == frame[t].idx
        IN  /\ (pc[t] = "idle" /\ frame'[t].op = "clear") => frame'[t].idx = 0
            /\ BodyStep(t, "clear")
               => /\ \A b \in Buckets : lock_[b] = t <=> b = i
                  /\ buckets_'[i].map_ = <<>> /\ buckets_'[i].list_ = <<>>
                  /\ \A b \in Buckets \ {i} : buckets_'[b] = buckets_[b]
                  /\ \A b \in Buckets : lock_'[b] # t
                  /\ IF i + 1 < bucketsNum_
                     THEN /\ pc'[t] = "lock" /\ frame'[t].op = "clear"
                          /\ frame'[t].idx = i + 1
                     ELSE pc'[t] = "idle" /\ ret'[t].op = "clear"

\* a bucket below the index of a running clear() holds only what was inserted
\* after that clear() began
C10_Cleared ==
    \A t \in Threads :
        frame[t].op = "clear"
        => \A b \in Buckets :
              (b < frame[t].idx /\ buckets_[b].map_ # <<>>) => b \in since[t]

\* C10: clear() empties the buckets one per step, in index order from 0, each
\* under that bucket's lock alone and released before the next is taken, and a
\* step leaves every other bucket as it is: keys put into a bucket after its
\* step stay, and between two steps the cache is partly cleared.
C10_ClearBucketwise == [][C10_Step]_vars /\ []C10_Cleared

\* a clear() is between its two steps: the first bucket is empty, and the second
\* still holds a key, inserted before the clear() began
C10_Witness ==
    \E t \in Threads :
        /\ frame[t].op = "clear" /\ frame[t].idx = 1 /\ pc[t] = "lock"
        /\ buckets_[0].map_ = <<>>
        /\ buckets_[1].map_ # <<>>
        /\ 1 \notin since[t]

\* a clear() is between its two steps, and the first bucket already holds a
\* key again
C10_Survivor ==
    \E t \in Threads :
        /\ frame[t].op = "clear" /\ frame[t].idx = 1 /\ pc[t] = "lock"
        /\ buckets_[0].map_ # <<>> /\ 0 \in since[t]

\* the call of an operation with a key: the thread leaves "idle" with a frame
CallStep(t) == pc[t] = "idle" /\ pc'[t] = "lock" /\ frame'[t].op # "clear"

C11_Step ==
    \A t \in Threads :
        LET h == frame[t].hint
            key == frame[t].key
            target == h % bucketsNum_
        IN  /\ (CallStep(t) /\ frame'[t].hint >= 0)
               => frame'[t].idx = frame'[t].hint % bucketsNum_
            /\ (CallStep(t) /\ frame'[t].hint < 0)
               => frame'[t].idx = Hash(frame'[t].key) % bucketsNum_
            /\ (BodyStep(t, "insert") /\ h >= 0)
               => /\ LRU_contains(buckets_'[target], key)
                  /\ \A b \in Buckets \ {target} : buckets_'[b] = buckets_[b]
            /\ (BodyStep(t, "contains") /\ h >= 0)
               => (ret'[t].val = 1 <=> LRU_contains(buckets_[target], key))

\* C11: a call with a hint h >= 0 goes to bucket h mod bucketsNum_ whatever the
\* key (a call without one to the bucket of the key's hash): insert with hint h
\* leaves the key in that bucket and no other bucket changed, and contains with
\* hint h returns true exactly when the key is in that bucket, so not for a key
\* that is only in another bucket.
C11_HintRouting == [][C11_Step]_vars

\* contains(k, hint) has just returned true for a hint that is not itself a
\* bucket index and masks to another bucket than the hash of k; k is not in the
\* bucket of its hash
C11_Witness ==
    \E t \in Threads :
        /\ pc[t] = "idle" /\ ret[t].op = "contains" /\ ret[t].val = 1
        /\ ret[t].hint >= bucketsNum_
        /\ ret[t].hint % bucketsNum_ # Hash(ret[t].key) % bucketsNum_
        /\ ~LRU_contains(buckets_[Hash(ret[t].key) % bucketsNum_], ret[t].key)

\* the claim as made: an instance has bucketsExp >= 1, and a constructor call
\* with bucketsExp < 1 fails
C12_Original ==
    /\ ~fatal => /\ bucketsNum_ = 2 ^ bucketsExp_
                 /\ bucketsExp_ >= 1
                 /\ capacity > bucketsNum_
    /\ (capacity <= 2 ^ bucketsExp_ \/ 2 ^ bucketsExp_ = 0 \/ bucketsExp_ < 1) => fatal

C12_Instance ==
    /\ ~fatal => /\ bucketsNum_ = 2 ^ bucketsExp_
                 /\ bucketsExp_ >= 0 /\ bucketsNum_ >= 1
                 /\ capacity > bucketsNum_
                 /\ DOMAIN buckets_ = 0..(bucketsNum_ - 1)
    /\ (capacity <= 2 ^ bucketsExp_ \/ 2 ^ bucketsExp_ = 0)
       => /\ fatal
          /\ buckets_ = <<>>
          /\ \A t \in Threads : pc[t] = "idle" /\ ret[t] = NoRet

\* C12 (amended): an instance has bucketsNum_ = 2^bucketsExp_ >= 1 buckets, with
\* bucketsExp_ >= 0, and capacity > bucketsNum_; a constructor call with
\* capacity <= 2^bucketsExp or no bucket aborts, and nothing runs after it.
\* bucketsExp = 0 is accepted and gives a cache of one bucket.
C12_Construction == []C12_Instance /\ [][~fatal]_vars

\* a cache constructed with bucketsExp = 0 is in use: an insert has returned and
\* its key is in the only bucket
C12_Witness ==
    /\ ~fatal /\ bucketsExp_ = 0 /\ bucketsNum_ = 1
    /\ \E t \in Threads :
          /\ pc[t] = "idle" /\ ret[t].op = "insert"
          /\ LRU_contains(buckets_[0], ret[t].key)

RECURSIVE SumCapacities(_)
\* the sum of the capacities of buckets 0..n-1
SumCapacities(n) ==
    IF n = 0 THEN 0 ELSE buckets_[n - 1].capacity_ + SumCapacities(n - 1)

\* C13: in every constructed cache each bucket but the last has capacity
\* floor(capacity / bucketsNum_), the last has that plus capacity mod
\* bucketsNum_, the capacities sum to capacity, and each is at least 1.
C13_CapacitySplit ==
    ~fatal =>
        /\ \A b \in Buckets :
              /\ b < bucketsNum_ - 1 =>
                    buckets_[b].capacity_ = capacity \div bucketsNum_
              /\ b = bucketsNum_ - 1 =>
                    buckets_[b].capacity_ =
                        (capacity \div bucketsNum_) + (capacity % bucketsNum_)
              /\ buckets_[b].capacity_ >= 1
        /\ SumCapacities(bucketsNum_) = capacity

\* a cache of several buckets whose capacity left a remainder, in use: the last
\* bucket holds more keys than any other bucket can
C13_Witness ==
    /\ ~fatal /\ bucketsNum_ >= 2 /\ capacity % bucketsNum_ # 0
    /\ LRU_size(buckets_[bucketsNum_ - 1]) > capacity \div bucketsNum_

\* C14: in every reachable state the list of every bucket holds no key and no
\* node twice, its keys are the keys of the map, and the iterator the map
\* stores for a key is that of the list node holding the key; nothing
\* undefined has been executed.
C14_ListMapConsistent ==
    /\ ~ub
    /\ \A b \in Buckets :
          LET list == buckets_[b].list_
              map == buckets_[b].map_
          IN  /\ \A i, j \in 1..Len(list) :
                    i # j => list[i].key # list[j].key /\ list[i].node # list[j].node
              /\ {list[i].key : i \in 1..Len(list)} = DOMAIN map
              /\ Len(list) = Cardinality(DOMAIN map)
              /\ \A k \in DOMAIN map :
                    \E i \in 1..Len(list) : list[i].node = map[k].it /\ list[i].key = k

\* a get has just promoted its key to the head of a full bucket of four keys,
\* into a reused node: one of a lower identity than the nodes behind it
C14_Witness ==
    \E t \in Threads :
        LET lru == buckets_[ret[t].idx]
        IN  /\ pc[t] = "idle" /\ ret[t].op = "get" /\ ret[t].found
            /\ LRU_size(lru) = 4
            /\ lru.list_[1].key = ret[t].key
            /\ lru.list_[1].node < lru.list_[2].node
            /\ lru.list_[2].node < lru.list_[3].node

C15_Step ==
    \A t \in Threads :
        LET idx == frame[t].idx
            key == frame[t].key
            lru == buckets_[idx]
            new == buckets_'[idx]
        IN  (BodyStep(t, "get") /\ LRU_contains(lru, key))
            => /\ ret'[t].kind = "value" /\ ret'[t].val = lru.map_[key].val
               /\ KeysOf(new.list_) =
                     <<key>> \o SelectSeq(KeysOf(lru.list_), LAMBDA k : k # key)
               /\ DOMAIN new.map_ = DOMAIN lru.map_
               /\ \A k \in DOMAIN lru.map_ : new.map_[k].val = lru.map_[k].val
               /\ \A b \in Buckets \ {idx} : buckets_'[b] = buckets_[b]
               /\ lru.list_[1].key = key => buckets_' = buckets_

\* C15: a get of a present key returns its stored value and leaves it at the
\* head of the bucket's list, the other keys in their order, the key set and
\* every value as they were; when the key is at the head already, nothing
\* changes.
C15_GetPromotes == [][C15_Step]_vars

\* get A has just returned in the recency example: A, inserted first of four
\* keys and so at the tail, is at the head, before D, C, B
C15_Witness ==
    /\ script = 5
    /\ \E t \in Threads : pc[t] = "idle" /\ ret[t].op = "get" /\ ret[t].key = 1
    /\ KeysOf(buckets_[0].list_) = <<1, 4, 3, 2>>

\* thread t is in the body of a bucket operation
InBody(t) == pc[t] \in {"run", "put"}

\* C16: a thread holds the lock of the bucket it is in the body of and no other
\* lock, and none while it waits or after its call returned; two threads are
\* never in the body of the same bucket; so whoever holds the lock a thread
\* waits for is not waiting itself, and no cycle of waiting threads exists.
C16_LockDiscipline ==
    /\ \A t \in Threads :
          /\ Cardinality({b \in Buckets : lock_[b] = t}) <= 1
          /\ \A b \in Buckets : lock_[b] = t <=> (InBody(t) /\ frame[t].idx = b)
          /\ pc[t] \in {"idle", "lock"} => \A b \in Buckets : lock_[b] # t
    /\ \A t, u \in Threads :
          /\ (t # u /\ InBody(t) /\ InBody(u)) => frame[t].idx # frame[u].idx
          /\ (pc[t] = "lock" /\ lock_[frame[t].idx] = u) => InBody(u)
    /\ \A b \in Buckets : lock_[b] \in Threads \cup {Unlocked}

\* a thread waits for the lock of the second bucket, held by a clear() that has
\* released the first; a key is in the first bucket again
C16_Witness ==
    \E t, u \in Threads :
        /\ pc[t] = "lock" /\ frame[t].idx = 1
        /\ lock_[1] = u /\ lock_[0] = Unlocked
        /\ pc[u] = "run" /\ frame[u].op = "clear" /\ frame[u].idx = 1
        /\ buckets_[0].map_ # <<>>

\* C17: under fair scheduling and fair lock acquisition every call a thread
\* has started returns, whatever the other thread calls.
C17_CallsReturn == \A t \in Threads : (pc[t] # "idle") ~> (pc[t] = "idle")

\* both threads are in clear(): one is clearing the first bucket, the other
\* waits for its lock
C17_Witness ==
    \E t, u \in Threads :
        /\ pc[t] = "lock" /\ frame[t].op = "clear" /\ frame[t].idx = 0
        /\ pc[u] = "run" /\ frame[u].op = "clear" /\ frame[u].idx = 0
        /\ lock_[0] = u

\* thread t takes a step of the body of an operation other than clear()
KeyedStep(t) == InBody(t) /\ frame[t].op # "clear" /\ pc'[t] # pc[t]

C18_Step ==
    /\ \A t \in Threads :
          /\ CallStep(t) =>
                frame'[t].idx = bucketIndex(frame'[t].key, frame'[t].hint)
          /\ (frame[t].op \notin {"none", "clear"} /\ frame'[t].op = frame[t].op)
                => frame'[t].idx = frame[t].idx
          /\ KeyedStep(t) =>
                \A b \in Buckets \ {frame[t].idx} :
                    buckets_'[b] = buckets_[b] /\ lock_'[b] = lock_[b]
    /\ \A b \in Buckets :
          \A k \in DOMAIN buckets_'[b].map_ \ DOMAIN buckets_[b].map_ :
              \E t \in Threads :
                  /\ LruInsertStep(t)
                  /\ frame[t].key = k /\ frame[t].idx = b
                  /\ buckets_'[b].map_[k].val = frame[t].val

\* C18: a call of an operation other than clear() works on the bucket its key
\* and hint route to, through all its steps, and each step leaves every other
\* bucket, and its lock, as it was: an eviction removes no key of another
\* bucket. A key appears in a bucket only by an insertion of that call's key
\* and value into that bucket, never by a move from another bucket.
C18_OneBucket == [][C18_Step]_vars

\* an insert has just put its key into the first bucket, of capacity 1,
\* while the second bucket still holds the same key with another value
C18_Witness ==
    \E t \in Threads :
        /\ pc[t] = "idle" /\ ret[t].op = "insert" /\ ~ret[t].found /\ ret[t].idx = 0
        /\ LRU_contains(buckets_[0], ret[t].key)
        /\ LRU_contains(buckets_[1], ret[t].key)
        /\ buckets_[1].map_[ret[t].key].val # buckets_[0].map_[ret[t].key].val

C19_Step ==
    \A t \in Threads :
        LET idx == frame[t].idx
            key == frame[t].key
            lru == buckets_[idx]
            new == buckets_'[idx]
            keys == KeysOf(lru.list_)
        IN  /\ (BodyStep(t, "putIfAbsent") /\ LRU_contains(lru, key))
               => /\ pc'[t] = "put" /\ frame'[t].v = lru.map_[key].val
                  /\ KeysOf(new.list_) = <<key>> \o SelectSeq(keys, LAMBDA k : k # key)
                  /\ (Len(keys) >= 2 /\ Last(keys) = key)
                        => Last(new.list_).key = keys[Len(keys) - 1]
                  /\ DOMAIN new.map_ = DOMAIN lru.map_
                  /\ \A k \in DOMAIN lru.map_ : new.map_[k].val = lru.map_[k].val
            /\ (pc[t] = "put" /\ frame[t].v # None /\ pc'[t] # "put")
               => /\ pc'[t] = "idle"
                  /\ ret'[t].kind = "value" /\ ret'[t].val = frame[t].v
                  /\ lru.map_[key].val = frame[t].v
                  /\ buckets_' = buckets_

\* C19: putIfAbsent of a present key returns the stored value and leaves the
\* key set and every value as they were, but moves the key to the head of the
\* list: when the key was the tail, the key before it becomes the tail, the one
\* the next capacity eviction removes.
C19_PutIfAbsentPromotes == [][C19_Step]_vars

\* putIfAbsent has just returned the stored value of its key, not the value it
\* was given, and the key is at the head of a full bucket of two keys
C19_Witness ==
    \E t \in Threads :
        LET lru == buckets_[ret[t].idx]
        IN  /\ pc[t] = "idle" /\ ret[t].op = "putIfAbsent" /\ ret[t].kind = "value"
            /\ ret[t].val # ret[t].arg
            /\ LRU_size(lru) = 2 /\ lru.capacity_ = 2
            /\ lru.list_[1].key = ret[t].key
            /\ lru.map_[ret[t].key].val = ret[t].val

C20_Step ==
    \A t \in Threads :
        LET lru == buckets_[frame[t].idx]
            new == buckets_'[frame[t].idx]
        IN  /\ ~ub'
            /\ LruInsertStep(t)
               => /\ LRU_insert_evicts(lru, frame[t].key)
                     => /\ lru.list_ # <<>>
                        /\ LRU_size(lru) >= lru.capacity_ /\ lru.capacity_ >= 1
                        /\ Last(lru.list_).key \notin DOMAIN new.map_
                  /\ ~(DOMAIN lru.map_ \subseteq DOMAIN new.map_)
                     => LRU_insert_evicts(lru, frame[t].key)

\* C20: in every cache the constructor accepts, every bucket has capacity at
\* least 1, and an insertion reaches the private evict() only with the key
\* absent and size() >= capacity_, so on a list that is not empty: its tail is
\* removed, and nothing undefined is executed.
C20_EvictOnNonEmpty ==
    /\ [][C20_Step]_vars
    /\ [](~ub /\ (~fatal => \A b \in Buckets : buckets_[b].capacity_ >= 1))

\* in a cache of four buckets an insertion has just reached evict() in a bucket
\* of capacity 1, whose list then held one key
C20_Witness ==
    \E t \in Threads :
        /\ pc[t] = "idle" /\ ret[t].evicted
        /\ bucketsNum_ = 4
        /\ buckets_[ret[t].idx].capacity_ = 1
        /\ KeysOf(buckets_[ret[t].idx].list_) = <<ret[t].key>>

====
